---- MODULE Spec2Model ----
(***************************************************************************)
(* Model of automakereadme.py: the README generator pipeline               *)
(*   parse_github_url -> get_repo_tree -> select_relevant_files ->         *)
(*   fetch_file_snippet (per file) -> build_prompt -> call_gemini -> write *)
(*                                                                         *)
(* Strings.  A URL path, a file path and a branch name are sequences of    *)
(* one-character strings.  File contents and snippets are run-length       *)
(* encoded texts: a sequence of runs [c |-> class, n |-> count] where the  *)
(* class of a character fixes its UTF-8 width and whether it is a line     *)
(* break; adjacent runs have different classes.                            *)
(***************************************************************************)
EXTENDS Integers, Sequences, FiniteSets, TLC

VARIABLES
    pc,              \* position in generate_readme_from_repo
    failure,         \* the exception that ended the run, "none" while running
    url,             \* urlparse(repo_url).path
    owner, repo,     \* results of parse_github_url
    branch,          \* `branch` of generate_readme_from_repo
    tree_branch,     \* `branch` local to get_repo_tree
    r,               \* last ref-lookup response of get_repo_tree
    first_status,    \* status of the first ref lookup (0 = not made)
    ref_lookups,     \* number of ref lookups made
    info_queries,    \* number of repository metadata (default branch) queries
    tree_requests,   \* number of recursive tree listings requested
    sha,             \* commit the tree listing is taken from (the branch it heads)
    tree,            \* list returned by get_repo_tree
    picked,          \* list returned by select_relevant_files
    i,               \* index of the next file of `picked` to fetch
    content,         \* `content` of the last fetch_file_snippet call
    fetch_log,       \* per selected file: outcome and ref of its content request
    snippets,        \* ordered dict path -> snippet, as a sequence of items
    j,               \* index of the next item in build_prompt's second loop
    files_list,      \* manifest lines of build_prompt
    blocks,          \* per-file blocks appended to `snippets` string of build_prompt
    total_bytes,     \* `total_bytes` of build_prompt
    prompt,          \* value returned by build_prompt
    GOOGLE_API_KEY,  \* whether the environment sets it
    readme,          \* text returned by call_gemini
    out_opened,      \* the output file has been opened for writing
    out_text         \* what has been written to the output file

vars == <<pc, failure, url, owner, repo, branch, tree_branch, r, first_status,
          ref_lookups, info_queries, tree_requests, sha, tree, picked, i,
          content, fetch_log, snippets, j, files_list, blocks, total_bytes,
          prompt, GOOGLE_API_KEY, readme, out_opened, out_text>>

parseVars  == <<url, owner, repo, branch>>
treeVars   == <<tree_branch, r, first_status, ref_lookups, info_queries,
                tree_requests, sha, tree>>
fetchVars  == <<i, content, fetch_log, snippets>>
buildVars  == <<j, files_list, blocks, total_bytes, prompt>>
geminiVars == <<GOOGLE_API_KEY, readme>>
outVars    == <<out_opened, out_text>>

(***************************************************************************)
(* Program constants                                                       *)
(***************************************************************************)
MAX_SNIPPET_BYTES == 20480
MAX_TOTAL_BYTES == 40960
SNIPPET_LINE_LIMIT == 300
PICK_LIMIT == 50

(***************************************************************************)
(* Bounds of the model                                                     *)
(***************************************************************************)
MaxSegs == 4       \* path segments of a URL
MaxTreeRuns == 2   \* runs of like entries in a tree
MaxRuns == 3       \* runs of a file content
MaxFiles == 4      \* items of a snippet mapping given to build_prompt

None == <<"N", "o", "n", "e">>

Min(a, b) == IF a < b THEN a ELSE b

(***************************************************************************)
(* Character-sequence helpers (str.strip, str.split, str.replace,          *)
(* str.endswith)                                                           *)
(***************************************************************************)
RECURSIVE LStrip(_, _)
LStrip(s, ch) ==
    IF s # <<>> /\ Head(s) = ch THEN LStrip(Tail(s), ch) ELSE s

RECURSIVE RStrip(_, _)
RStrip(s, ch) ==
    IF s # <<>> /\ s[Len(s)] = ch THEN RStrip(SubSeq(s, 1, Len(s) - 1), ch) ELSE s

Strip(s, ch) == RStrip(LStrip(s, ch), ch)

\* s.split(sep) for a one-character sep: always at least one (maybe empty) part
RECURSIVE SplitFrom(_, _, _, _)
SplitFrom(s, sep, cur, acc) ==
    IF s = <<>> THEN Append(acc, cur)
    ELSE IF Head(s) = sep THEN SplitFrom(Tail(s), sep, <<>>, Append(acc, cur))
    ELSE SplitFrom(Tail(s), sep, Append(cur, Head(s)), acc)

Split(s, sep) == SplitFrom(s, sep, <<>>, <<>>)

StartsWith(s, p) == Len(s) >= Len(p) /\ SubSeq(s, 1, Len(p)) = p

EndsWith(s, p) == Len(s) >= Len(p) /\ SubSeq(s, Len(s) - Len(p) + 1, Len(s)) = p

\* s.replace(old, new): every non-overlapping occurrence, left to right
RECURSIVE Replace(_, _, _)
Replace(s, old, new) ==
    IF s = <<>> THEN <<>>
    ELSE IF StartsWith(s, old)
         THEN new \o Replace(SubSeq(s, Len(old) + 1, Len(s)), old, new)
         ELSE <<Head(s)>> \o Replace(Tail(s), old, new)

DotGit == <<".", "g", "i", "t">>
Main == <<"m", "a", "i", "n">>
Master == <<"m", "a", "s", "t", "e", "r">>
Dev == <<"d", "e", "v">>
TreeWord == <<"t", "r", "e", "e">>

(***************************************************************************)
(* parse_github_url                                                        *)
(***************************************************************************)
UrlParts(path) == Split(Strip(path, "/"), "/")

parse_github_url(path) ==
    LET parts == UrlParts(path) IN
    IF Len(parts) < 2
    THEN [ok |-> FALSE, owner |-> None, repo |-> None, branch |-> None]
    ELSE [ok |-> TRUE,
          owner |-> parts[1],
          repo |-> Replace(parts[2], DotGit, <<>>),
          branch |-> IF Len(parts) >= 4 /\ parts[3] = TreeWord
                     THEN parts[4] ELSE Main]

(***************************************************************************)
(* select_relevant_files.  A tree entry is [path, type, sha].              *)
(***************************************************************************)
Extensions ==
    << <<".", "p", "y">>, <<".", "m", "d">>, <<".", "t", "x", "t">>,
       <<".", "j", "s", "o", "n">>, <<".", "y", "m", "l">>,
       <<".", "y", "a", "m", "l">>, <<".", "t", "o", "m", "l">>,
       <<".", "i", "n", "i">>, <<".", "c", "f", "g">> >>

\* path.endswith((".py", ".md", ...))
HasExtension(path) == \E k \in 1..Len(Extensions) : EndsWith(path, Extensions[k])

IsBlob(item) == item.type = "blob"

IsRelevant(item) == item.type = "blob" /\ HasExtension(item.path)

Take(s, n) == SubSeq(s, 1, Min(n, Len(s)))

\* variant: the [:50] slice is left out
select_untruncated(t) ==
    LET by_ext == SelectSeq(t, IsRelevant)
    IN IF by_ext = <<>> THEN SelectSeq(t, IsBlob) ELSE by_ext

\* variant: the extension test comes before the type test is applied to the
\* fallback decision, so a directory named like a source file blocks the fallback
select_fallback_on_any_entry(t) ==
    LET by_ext == SelectSeq(t, IsRelevant)
        named == SelectSeq(t, LAMBDA item : HasExtension(item.path))
        all == IF named = <<>> THEN SelectSeq(t, IsBlob) ELSE by_ext
    IN Take(all, PICK_LIMIT)

select_relevant_files(t) ==
    LET by_ext == SelectSeq(t, IsRelevant)
        all == IF by_ext = <<>> THEN SelectSeq(t, IsBlob) ELSE by_ext
    IN Take(all, PICK_LIMIT)

(***************************************************************************)
(* Run-length encoded text: str.encode, bytes slicing, bytes.decode with   *)
(* errors="ignore", str.splitlines, str.join                               *)
(***************************************************************************)
\* UTF-8 width of a character of each class
Width(c) == CASE c = "nl" -> 1 [] c = "a" -> 1 [] c = "eur" -> 3

AppendRun(t, c, n) ==
    IF n = 0 THEN t
    ELSE IF t # <<>> /\ t[Len(t)].c = c
         THEN [t EXCEPT ![Len(t)].n = @ + n]
         ELSE Append(t, [c |-> c, n |-> n])

RECURSIVE Concat(_, _)
Concat(t, u) ==
    IF u = <<>> THEN t ELSE Concat(AppendRun(t, u[1].c, u[1].n), Tail(u))

\* s.encode("utf-8"): runs of bytes, n counts bytes
Encode(t) == [k \in 1..Len(t) |-> [c |-> t[k].c, n |-> t[k].n * Width(t[k].c)]]

RECURSIVE NumBytes(_)
NumBytes(b) == IF b = <<>> THEN 0 ELSE b[1].n + NumBytes(Tail(b))

\* b[:limit]
RECURSIVE SliceBytes(_, _)
SliceBytes(b, limit) ==
    IF b = <<>> \/ limit <= 0 THEN <<>>
    ELSE IF b[1].n >= limit THEN << [c |-> b[1].c, n |-> limit] >>
    ELSE <<b[1]>> \o SliceBytes(Tail(b), limit - b[1].n)

\* b.decode("utf-8", errors="ignore"): incomplete sequences are dropped
RECURSIVE DecodeIgnore(_)
DecodeIgnore(b) ==
    IF b = <<>> THEN <<>>
    ELSE Concat(AppendRun(<<>>, b[1].c, b[1].n \div Width(b[1].c)),
                DecodeIgnore(Tail(b)))

\* s.splitlines(): each line break ends a line, a non-empty rest is a last line
RECURSIVE SplitLinesFrom(_, _, _)
SplitLinesFrom(t, cur, acc) ==
    IF t = <<>> THEN (IF cur = <<>> THEN acc ELSE Append(acc, cur))
    ELSE IF t[1].c = "nl"
         THEN SplitLinesFrom(Tail(t), <<>>,
                  Append(acc, cur) \o [k \in 1..(t[1].n - 1) |-> <<>>])
         ELSE SplitLinesFrom(Tail(t), AppendRun(cur, t[1].c, t[1].n), acc)

splitlines(t) == SplitLinesFrom(t, <<>>, <<>>)

\* "\n".join(lines), computed by halves of lines[lo..hi]
RECURSIVE JoinRange(_, _, _)
JoinRange(lines, lo, hi) ==
    IF lo > hi THEN <<>>
    ELSE IF lo = hi THEN lines[lo]
    ELSE LET mid == (lo + hi) \div 2 IN
         Concat(AppendRun(JoinRange(lines, lo, mid), "nl", 1),
                JoinRange(lines, mid + 1, hi))

Join(lines) == JoinRange(lines, 1, Len(lines))

(***************************************************************************)
(* fetch_file_snippet.  A response of the content endpoint is              *)
(* [status, content]; content is the text after the base64 decoding.       *)
(***************************************************************************)
\* variant: the byte slice keeps the whole character it cuts into
TrimSnippetRoundUp(text) ==
    LET lines == Take(splitlines(text), SNIPPET_LINE_LIMIT)
        snippet == Join(lines)
        cut == SliceBytes(Encode(snippet), MAX_SNIPPET_BYTES)
    IN IF NumBytes(Encode(snippet)) > MAX_SNIPPET_BYTES
       THEN [k \in 1..Len(cut) |->
                [c |-> cut[k].c,
                 n |-> (cut[k].n + Width(cut[k].c) - 1) \div Width(cut[k].c)]]
       ELSE snippet

TrimSnippet(text) ==
    LET lines == Take(splitlines(text), SNIPPET_LINE_LIMIT)
        snippet == Join(lines)
    IN IF NumBytes(Encode(snippet)) > MAX_SNIPPET_BYTES
       THEN DecodeIgnore(SliceBytes(Encode(snippet), MAX_SNIPPET_BYTES))
       ELSE snippet

fetch_file_snippet(resp) ==
    IF resp.status # 200 THEN <<>> ELSE TrimSnippet(resp.content)

(***************************************************************************)
(* Responses of the two services                                           *)
(***************************************************************************)
RefResponses ==
    { [status |-> 200, has_sha |-> TRUE], [status |-> 200, has_sha |-> FALSE],
      [status |-> 404, has_sha |-> FALSE], [status |-> 500, has_sha |-> FALSE] }

InfoBodies ==
    { [has_default |-> TRUE, default_branch |-> b] : b \in {Main, Master, Dev} }
    \cup { [has_default |-> FALSE, default_branch |-> None] }

ContentResponses(Contents) ==
    { [raises |-> FALSE, status |-> 200, content |-> c] : c \in Contents }
    \cup { [raises |-> FALSE, status |-> 404, content |-> <<>>],
           [raises |-> TRUE, status |-> 0, content |-> <<>>] }

\* text is the JSON value under candidates[0].content.parts[0].text
GeminiResponses ==
    { [status |-> 200, has_text |-> TRUE, text |-> [null |-> FALSE, str |-> t]] :
          t \in {"", "# README"} }
    \cup { [status |-> 200, has_text |-> TRUE, text |-> [null |-> TRUE, str |-> ""]],
           [status |-> 200, has_text |-> FALSE, text |-> [null |-> TRUE, str |-> ""]],
           [status |-> 500, has_text |-> FALSE, text |-> [null |-> TRUE, str |-> ""]] }

NoText == [null |-> TRUE, str |-> ""]

\* Python truth value of the completion text: `not readme`
Falsy(v) == v.null \/ v.str = ""

\* snippets[path] = value on an insertion-ordered dict
DictSet(d, path, value) ==
    IF \E k \in 1..Len(d) : d[k].path = path
    THEN [k \in 1..Len(d) |->
             IF d[k].path = path THEN [path |-> path, snippet |-> value] ELSE d[k]]
    ELSE Append(d, [path |-> path, snippet |-> value])

(***************************************************************************)
(* Actions of generate_readme_from_repo                                    *)
(***************************************************************************)
\* line 181
Parse ==
    /\ pc = "parse"
    /\ LET p == parse_github_url(url) IN
       IF p.ok
       THEN /\ owner' = p.owner /\ repo' = p.repo /\ branch' = p.branch
            /\ pc' = "ref1" /\ failure' = failure
       ELSE /\ pc' = "failed" /\ failure' = "InvalidRepoURL"
            /\ UNCHANGED <<owner, repo, branch>>
    /\ UNCHANGED <<url, treeVars, picked, fetchVars, buildVars, geminiVars, outVars>>

\* variant: the fallback is taken on any error status, not on 404 alone
RefLookup1AnyError ==
    /\ pc = "ref1"
    /\ \E resp \in RefResponses :
          /\ r' = resp
          /\ first_status' = resp.status
          /\ pc' = IF resp.status >= 400 THEN "info" ELSE "resolve"
    /\ tree_branch' = branch
    /\ ref_lookups' = ref_lookups + 1
    /\ UNCHANGED <<failure, parseVars, info_queries, tree_requests, sha, tree,
                   picked, fetchVars, buildVars, geminiVars, outVars>>

\* get_repo_tree, lines 59-61: first ref lookup
RefLookup1 ==
    /\ pc = "ref1"
    /\ \E resp \in RefResponses :
          /\ r' = resp
          /\ first_status' = resp.status
          /\ pc' = IF resp.status = 404 THEN "info" ELSE "resolve"
    /\ tree_branch' = branch
    /\ ref_lookups' = ref_lookups + 1
    /\ UNCHANGED <<failure, parseVars, info_queries, tree_requests, sha, tree,
                   picked, fetchVars, buildVars, geminiVars, outVars>>

\* get_repo_tree, lines 62-63: default branch of the repository
InfoQuery ==
    /\ pc = "info"
    /\ \E info \in InfoBodies :
          tree_branch' = IF info.has_default THEN info.default_branch ELSE Main
    /\ info_queries' = info_queries + 1
    /\ pc' = "ref2"
    /\ UNCHANGED <<failure, parseVars, r, first_status, ref_lookups, tree_requests,
                   sha, tree, picked, fetchVars, buildVars, geminiVars, outVars>>

\* get_repo_tree, lines 64-65: second ref lookup
RefLookup2 ==
    /\ pc = "ref2"
    /\ \E resp \in RefResponses : r' = resp
    /\ ref_lookups' = ref_lookups + 1
    /\ pc' = "resolve"
    /\ UNCHANGED <<failure, parseVars, tree_branch, first_status, info_queries,
                   tree_requests, sha, tree, picked, fetchVars, buildVars,
                   geminiVars, outVars>>

\* get_repo_tree, lines 66-67: raise_for_status and the commit SHA
Resolve ==
    /\ pc = "resolve"
    /\ IF r.status >= 400
       THEN pc' = "failed" /\ failure' = "ForgeAPIError" /\ sha' = sha
       ELSE IF ~r.has_sha
            THEN pc' = "failed" /\ failure' = "KeyError" /\ sha' = sha
            ELSE pc' = "tree" /\ failure' = failure /\ sha' = tree_branch
    /\ UNCHANGED <<parseVars, tree_branch, r, first_status, ref_lookups,
                   info_queries, tree_requests, tree, picked, fetchVars,
                   buildVars, geminiVars, outVars>>

PipeTrees ==
    LET e(p, t, k) == [path |-> p, type |-> t, sha |-> k] IN
    { <<>>,
      << e(<<"a", ".", "p", "y">>, "blob", 1), e(<<"s">>, "tree", 2),
         e(<<"s", "/", "b">>, "blob", 3) >>,
      << e(<<"c">>, "blob", 1), e(<<"d">>, "blob", 2) >>,
      << e(<<"a", ".", "p", "y">>, "blob", 1),
         e(<<"r", ".", "m", "d">>, "blob", 2),
         e(<<"s", "/", "t", ".", "c", "f", "g">>, "blob", 3) >> }

\* get_repo_tree, lines 70-73: recursive tree listing
TreeRequest ==
    /\ pc = "tree"
    /\ tree_requests' = tree_requests + 1
    /\ \/ /\ pc' = "failed" /\ failure' = "ForgeAPIError" /\ tree' = tree
       \/ /\ \E t \in PipeTrees : tree' = t
          /\ pc' = "select" /\ failure' = failure
    /\ UNCHANGED <<parseVars, tree_branch, r, first_status, ref_lookups,
                   info_queries, sha, picked, fetchVars, buildVars, geminiVars,
                   outVars>>

\* lines 184-187
Select ==
    /\ pc = "select"
    /\ picked' = select_relevant_files(tree)
    /\ snippets' = <<>>
    /\ fetch_log' = <<>>
    /\ i' = 1
    /\ pc' = "fetch"
    /\ UNCHANGED <<failure, parseVars, treeVars, content, buildVars, geminiVars,
                   outVars>>

\* lines 188-193: one iteration of the fetch loop
FetchFile(Contents) ==
    /\ pc = "fetch"
    /\ i <= Len(picked)
    /\ \E resp \in ContentResponses(Contents) :
          LET path == picked[i].path IN
          /\ fetch_log' = Append(fetch_log,
                 [path |-> path, ref |-> branch, raised |-> resp.raises,
                  status |-> resp.status])
          /\ IF resp.raises
             THEN UNCHANGED <<snippets, content>>
             ELSE /\ snippets' = DictSet(snippets, path, fetch_file_snippet(resp))
                  /\ content' = resp.content
    /\ i' = i + 1
    /\ UNCHANGED <<pc, failure, parseVars, treeVars, picked, buildVars,
                   geminiVars, outVars>>

\* line 195: the loop is over, build_prompt is called
FetchDone ==
    /\ pc = "fetch"
    /\ i > Len(picked)
    /\ pc' = "build"
    /\ UNCHANGED <<failure, parseVars, treeVars, picked, fetchVars, buildVars,
                   geminiVars, outVars>>

\* build_prompt, lines 119-132: manifest, empty blocks, zero counter
BuildStart ==
    /\ pc = "build"
    /\ files_list' = [k \in 1..Len(snippets) |->
                         [path |-> snippets[k].path,
                          lines |-> Len(splitlines(snippets[k].snippet))]]
    /\ blocks' = <<>>
    /\ total_bytes' = 0
    /\ j' = 1
    /\ pc' = "build_loop"
    /\ UNCHANGED <<failure, parseVars, treeVars, picked, fetchVars, prompt,
                   geminiVars, outVars>>

\* variant: the budget is tested before the snippet's size is added
BuildStepLateCheck ==
    /\ pc = "build_loop"
    /\ j <= Len(snippets)
    /\ LET size == NumBytes(Encode(snippets[j].snippet)) IN
       IF size = 0
       THEN j' = j + 1 /\ UNCHANGED <<pc, blocks, total_bytes>>
       ELSE IF total_bytes > MAX_TOTAL_BYTES
            THEN pc' = "build_ret" /\ UNCHANGED <<j, blocks, total_bytes>>
            ELSE /\ blocks' = Append(blocks, snippets[j])
                 /\ total_bytes' = total_bytes + size
                 /\ j' = j + 1
                 /\ pc' = pc
    /\ UNCHANGED <<failure, parseVars, treeVars, picked, fetchVars, files_list,
                   prompt, geminiVars, outVars>>

\* variant: an over-budget snippet is skipped and the loop goes on
BuildStepSkip ==
    /\ pc = "build_loop"
    /\ j <= Len(snippets)
    /\ LET size == NumBytes(Encode(snippets[j].snippet)) IN
       IF size = 0 \/ total_bytes + size > MAX_TOTAL_BYTES
       THEN j' = j + 1 /\ UNCHANGED <<pc, blocks, total_bytes>>
       ELSE /\ blocks' = Append(blocks, snippets[j])
            /\ total_bytes' = total_bytes + size
            /\ j' = j + 1
            /\ pc' = pc
    /\ UNCHANGED <<failure, parseVars, treeVars, picked, fetchVars, files_list,
                   prompt, geminiVars, outVars>>

\* build_prompt, lines 133-140: one iteration of the budget loop
BuildStep ==
    /\ pc = "build_loop"
    /\ j <= Len(snippets)
    /\ LET size == NumBytes(Encode(snippets[j].snippet)) IN
       IF size = 0
       THEN j' = j + 1 /\ UNCHANGED <<pc, blocks, total_bytes>>
       ELSE IF total_bytes + size > MAX_TOTAL_BYTES
            THEN pc' = "build_ret" /\ UNCHANGED <<j, blocks, total_bytes>>
            ELSE /\ blocks' = Append(blocks, snippets[j])
                 /\ total_bytes' = total_bytes + size
                 /\ j' = j + 1
                 /\ pc' = pc
    /\ UNCHANGED <<failure, parseVars, treeVars, picked, fetchVars, files_list,
                   prompt, geminiVars, outVars>>

\* build_prompt, lines 142-153
BuildReturn ==
    /\ \/ pc = "build_ret"
       \/ pc = "build_loop" /\ j > Len(snippets)
    /\ prompt' = [branch |-> branch, files_list |-> files_list, blocks |-> blocks]
    /\ pc' = "gemini"
    /\ UNCHANGED <<failure, parseVars, treeVars, picked, fetchVars, j, files_list,
                   blocks, total_bytes, geminiVars, outVars>>

\* call_gemini, lines 158-176
CallGemini ==
    /\ pc = "gemini"
    /\ IF ~GOOGLE_API_KEY
       THEN pc' = "failed" /\ failure' = "MissingCredentials" /\ readme' = readme
       ELSE \E resp \in GeminiResponses :
               IF resp.status # 200
               THEN pc' = "failed" /\ failure' = "CompletionAPIError"
                    /\ readme' = readme
               ELSE IF ~resp.has_text
                    THEN pc' = "failed" /\ failure' = "MalformedResponse"
                         /\ readme' = readme
                    ELSE pc' = "check" /\ failure' = failure
                         /\ readme' = resp.text
    /\ UNCHANGED <<parseVars, treeVars, picked, fetchVars, buildVars,
                   GOOGLE_API_KEY, outVars>>

\* variant: the file is opened before the text is tested
CheckReadmeAfterOpen ==
    /\ pc = "check"
    /\ out_opened' = TRUE
    /\ out_text' = out_text
    /\ IF Falsy(readme)
       THEN pc' = "failed" /\ failure' = "EmptyCompletion"
       ELSE pc' = "write" /\ failure' = failure
    /\ UNCHANGED <<parseVars, treeVars, picked, fetchVars, buildVars, geminiVars>>

\* lines 199-200
CheckReadme ==
    /\ pc = "check"
    /\ IF Falsy(readme)
       THEN pc' = "failed" /\ failure' = "EmptyCompletion"
       ELSE pc' = "write" /\ failure' = failure
    /\ UNCHANGED <<parseVars, treeVars, picked, fetchVars, buildVars, geminiVars,
                   outVars>>

\* lines 202-204
WriteFile ==
    /\ pc = "write"
    /\ out_opened' = TRUE
    /\ out_text' = readme.str
    /\ pc' = "done"
    /\ UNCHANGED <<failure, parseVars, treeVars, picked, fetchVars, buildVars,
                   geminiVars>>

\* a request of get_repo_tree or call_gemini raises (no connection, bad JSON)
RequestError ==
    /\ pc \in {"ref1", "info", "ref2", "tree", "gemini"}
    /\ pc = "gemini" => GOOGLE_API_KEY
    /\ tree_branch' = IF pc = "ref1" THEN branch ELSE tree_branch
    /\ first_status' = first_status
    /\ ref_lookups' = IF pc \in {"ref1", "ref2"} THEN ref_lookups + 1 ELSE ref_lookups
    /\ info_queries' = IF pc = "info" THEN info_queries + 1 ELSE info_queries
    /\ tree_requests' = IF pc = "tree" THEN tree_requests + 1 ELSE tree_requests
    /\ pc' = "failed"
    /\ failure' = "RequestException"
    /\ UNCHANGED <<parseVars, r, sha, tree, picked, fetchVars, buildVars,
                   geminiVars, outVars>>

(***************************************************************************)
(* Inputs                                                                  *)
(***************************************************************************)
Run(c, n) == [c |-> c, n |-> n]

PipeUrls ==
    { <<"/", "a">>,
      <<"/", "a", "/", "w", ".", "g", "i", "t">>,
      <<"/", "a", "/", "w", "/", "t", "r", "e", "e", "/", "d", "e", "v">> }

PipeContents ==
    { <<>>, <<Run("a", 3), Run("nl", 1)>>, <<Run("a", MAX_SNIPPET_BYTES + 1)>> }

\* URL paths: up to MaxSegs segments, with or without a trailing slash
Segs ==
    { <<>>, <<"a">>, TreeWord, Dev, <<"w", ".", "g", "i", "t">>,
      <<"m", ".", "g", "i", "t", "h">> }

RECURSIVE PathOf(_)
PathOf(segs) == IF segs = <<>> THEN <<>> ELSE <<"/">> \o Head(segs) \o PathOf(Tail(segs))

UrlPaths ==
    { PathOf(ss) \o tail :
         ss \in UNION { [1..n -> Segs] : n \in 0..MaxSegs }, tail \in {<<>>, <<"/">>} }

\* trees: up to MaxTreeRuns runs of like entries, sha = position in the tree
EntryKinds ==
    { [path |-> <<"a", ".", "p", "y">>, type |-> "blob"],
      [path |-> <<"c", ".", "y", "a", "m", "l">>, type |-> "blob"],
      [path |-> <<"M">>, type |-> "blob"],
      [path |-> <<"p", "y">>, type |-> "blob"],
      [path |-> <<"x", ".", "p", "y", "c">>, type |-> "blob"],
      [path |-> <<"s">>, type |-> "tree"],
      [path |-> <<"d", ".", "p", "y">>, type |-> "tree"] }

EntryCounts == {1, PICK_LIMIT - 1, PICK_LIMIT, PICK_LIMIT + 1}

RECURSIVE Flatten(_)
Flatten(runs) ==
    IF runs = <<>> THEN <<>>
    ELSE [k \in 1..Head(runs).n |-> Head(runs).kind] \o Flatten(Tail(runs))

MakeTree(runs) ==
    LET f == Flatten(runs) IN
    [k \in 1..Len(f) |-> [path |-> f[k].path, type |-> f[k].type, sha |-> k]]

SelectTrees ==
    { MakeTree(rs) :
         rs \in UNION { [1..n -> [kind : EntryKinds, n : EntryCounts]] :
                          n \in 0..MaxTreeRuns } }

\* file contents: up to MaxRuns runs, adjacent runs of different classes
NlCounts == {1, SNIPPET_LINE_LIMIT - 1, SNIPPET_LINE_LIMIT, SNIPPET_LINE_LIMIT + 1}

CharCounts ==
    {1, 2, MAX_SNIPPET_BYTES \div 3, MAX_SNIPPET_BYTES \div 3 + 1,
     MAX_SNIPPET_BYTES, MAX_SNIPPET_BYTES + 1}

Runs ==
    { Run("nl", n) : n \in NlCounts }
    \cup { Run(c, n) : c \in {"a", "eur"}, n \in CharCounts }

Texts ==
    { t \in UNION { [1..n -> Runs] : n \in 0..MaxRuns } :
         \A k \in 1..(Len(t) - 1) : t[k].c # t[k + 1].c }

\* snippet mappings given to build_prompt: up to MaxFiles items
PromptSnippets ==
    { <<>>, <<Run("a", 1)>>, <<Run("a", MAX_SNIPPET_BYTES - 1)>>,
      <<Run("a", MAX_SNIPPET_BYTES)>>, <<Run("eur", MAX_SNIPPET_BYTES \div 3)>>,
      <<Run("a", MAX_TOTAL_BYTES)>>, <<Run("a", MAX_TOTAL_BYTES + 1)>> }

FilePath(k) == [x \in 1..k |-> "f"] \o <<".", "p", "y">>

Mappings ==
    { [k \in 1..Len(ss) |-> [path |-> FilePath(k), snippet |-> ss[k]]] :
         ss \in UNION { [1..n -> PromptSnippets] : n \in 0..MaxFiles } }

(***************************************************************************)
(* Specifications                                                          *)
(***************************************************************************)
ParseBlank == owner = None /\ repo = None /\ branch = None

TreeBlank ==
    /\ tree_branch = None /\ r = [status |-> 0, has_sha |-> FALSE]
    /\ first_status = 0 /\ ref_lookups = 0 /\ info_queries = 0
    /\ tree_requests = 0 /\ sha = None

FetchBlank == i = 1 /\ content = <<>> /\ fetch_log = <<>>

BuildBlank ==
    /\ j = 1 /\ files_list = <<>> /\ blocks = <<>> /\ total_bytes = 0
    /\ prompt = [branch |-> None, files_list |-> <<>>, blocks |-> <<>>]

OutBlank == readme = NoText /\ out_opened = FALSE /\ out_text = ""

\* the whole run, from the command line to the output file
Init ==
    /\ pc = "parse" /\ failure = "none"
    /\ url \in PipeUrls
    /\ GOOGLE_API_KEY \in BOOLEAN
    /\ ParseBlank /\ TreeBlank /\ tree = <<>> /\ picked = <<>>
    /\ FetchBlank /\ snippets = <<>> /\ BuildBlank /\ OutBlank

Next ==
    \/ Parse \/ RefLookup1 \/ InfoQuery \/ RefLookup2 \/ Resolve \/ TreeRequest
    \/ Select \/ FetchFile(PipeContents) \/ FetchDone
    \/ BuildStart \/ BuildStep \/ BuildReturn
    \/ CallGemini \/ CheckReadme \/ WriteFile \/ RequestError

Spec == Init /\ [][Next]_vars

\* parse_github_url on every URL path of UrlPaths
InitParse ==
    /\ pc = "parse" /\ failure = "none"
    /\ url \in UrlPaths
    /\ GOOGLE_API_KEY = TRUE
    /\ ParseBlank /\ TreeBlank /\ tree = <<>> /\ picked = <<>>
    /\ FetchBlank /\ snippets = <<>> /\ BuildBlank /\ OutBlank

NextParse == Parse

SpecParse == InitParse /\ [][NextParse]_vars

\* select_relevant_files on every tree of SelectTrees
InitSelect ==
    /\ pc = "select" /\ failure = "none"
    /\ url = <<"/", "a", "/", "w">> /\ owner = <<"a">> /\ repo = <<"w">>
    /\ branch = Main
    /\ GOOGLE_API_KEY = TRUE
    /\ TreeBlank /\ tree \in SelectTrees /\ picked = <<>>
    /\ FetchBlank /\ snippets = <<>> /\ BuildBlank /\ OutBlank

NextSelect == Select

SpecSelect == InitSelect /\ [][NextSelect]_vars

\* fetch_file_snippet of one selected file, on every content of Texts
InitSnippet ==
    /\ pc = "fetch" /\ failure = "none"
    /\ url = <<"/", "a", "/", "w">> /\ owner = <<"a">> /\ repo = <<"w">>
    /\ branch = Main
    /\ GOOGLE_API_KEY = TRUE
    /\ TreeBlank /\ tree = MakeTree(<<[kind |-> [path |-> FilePath(1), type |-> "blob"], n |-> 1]>>)
    /\ picked = tree
    /\ FetchBlank /\ snippets = <<>> /\ BuildBlank /\ OutBlank

NextSnippet == FetchFile(Texts)

SpecSnippet == InitSnippet /\ [][NextSnippet]_vars

\* build_prompt on every mapping of Mappings
InitPrompt ==
    /\ pc = "build" /\ failure = "none"
    /\ url = <<"/", "a", "/", "w">> /\ owner = <<"a">> /\ repo = <<"w">>
    /\ branch = Main
    /\ GOOGLE_API_KEY = TRUE
    /\ TreeBlank /\ tree = <<>> /\ picked = <<>>
    /\ FetchBlank /\ snippets \in Mappings /\ BuildBlank /\ OutBlank

NextPrompt == BuildStart \/ BuildStep \/ BuildReturn

SpecPrompt == InitPrompt /\ [][NextPrompt]_vars

(***************************************************************************)
(* Properties                                                              *)
(***************************************************************************)
\* measures of a text, taken from its runs alone
RECURSIVE ByteLen(_)
ByteLen(t) == IF t = <<>> THEN 0 ELSE t[1].n * Width(t[1].c) + ByteLen(Tail(t))

RECURSIVE NumNl(_)
NumNl(t) ==
    IF t = <<>> THEN 0
    ELSE (IF t[1].c = "nl" THEN t[1].n ELSE 0) + NumNl(Tail(t))

EndsWithNl(t) == t # <<>> /\ t[Len(t)].c = "nl"

LineCount(t) == IF t = <<>> THEN 0 ELSE NumNl(t) + (IF EndsWithNl(t) THEN 0 ELSE 1)

\* the text before its k-th line break (k >= 1, the text has at least k)
RECURSIVE BeforeNthNl(_, _)
BeforeNthNl(t, k) ==
    IF t[1].c = "nl"
    THEN IF t[1].n >= k
         THEN (IF k = 1 THEN <<>> ELSE << Run("nl", k - 1) >>)
         ELSE <<t[1]>> \o BeforeNthNl(Tail(t), k - t[1].n)
    ELSE <<t[1]>> \o BeforeNthNl(Tail(t), k)

\* the first SNIPPET_LINE_LIMIT lines of a text, joined by line breaks
FirstLines(t) ==
    IF NumNl(t) >= SNIPPET_LINE_LIMIT THEN BeforeNthNl(t, SNIPPET_LINE_LIMIT)
    ELSE IF EndsWithNl(t) THEN BeforeNthNl(t, NumNl(t))
    ELSE t

\* s is a prefix of t (both with adjacent runs of different classes)
IsPrefix(s, t) ==
    \/ s = <<>>
    \/ /\ Len(s) <= Len(t)
       /\ \A k \in 1..(Len(s) - 1) : s[k] = t[k]
       /\ s[Len(s)].c = t[Len(s)].c
       /\ s[Len(s)].n <= t[Len(s)].n

RECURSIVE BlockBytes(_)
BlockBytes(bs) == IF bs = <<>> THEN 0 ELSE ByteLen(bs[1].snippet) + BlockBytes(Tail(bs))

\* bytes of the snippets of the first k items of a mapping
PrefixBytes(d, k) == BlockBytes(SubSeq(d, 1, k))

\* index of the first item whose inclusion crosses the budget, Len + 1 if none
FirstOverflow(d) ==
    IF \E k \in 1..Len(d) : PrefixBytes(d, k) > MAX_TOTAL_BYTES
    THEN CHOOSE k \in 1..Len(d) :
            /\ PrefixBytes(d, k) > MAX_TOTAL_BYTES
            /\ \A m \in 1..(k - 1) : PrefixBytes(d, m) <= MAX_TOTAL_BYTES
    ELSE Len(d) + 1

NonEmpty(item) == item.snippet # <<>>

\* C1: the output file is opened and written only as the last step of a run
\* in which nothing failed; a run that ends in a fatal failure never opens it.
NoOutputOnFailure ==
    /\ pc = "failed" => ~out_opened /\ out_text = ""
    /\ out_opened => pc = "done" /\ failure = "none" /\ ~Falsy(readme)
                      /\ out_text = readme.str

\* C1 witness: the completion text was empty, the run failed at the last test
EmptyCompletionFailed ==
    pc = "failed" /\ failure = "EmptyCompletion" /\ prompt.branch # None

\* C2: the snippets whose blocks are in the prompt sum to at most
\* MAX_TOTAL_BYTES bytes, at every step of the loop and in the returned prompt.
BudgetKept ==
    /\ BlockBytes(blocks) <= MAX_TOTAL_BYTES
    /\ total_bytes = BlockBytes(blocks)
    /\ BlockBytes(prompt.blocks) <= MAX_TOTAL_BYTES

\* C2 witness: the budget was filled exactly and a later snippet was left out
BudgetFilled ==
    /\ pc = "gemini"
    /\ BlockBytes(prompt.blocks) = MAX_TOTAL_BYTES
    /\ Len(prompt.blocks) < Len(SelectSeq(snippets, NonEmpty))

\* C3: the blocks of the prompt are exactly the non-empty snippets of the
\* items before the first one whose inclusion would cross the budget; that
\* item and every later one are left out, whatever their size.
StopAtFirstOverflow ==
    pc = "gemini" =>
        prompt.blocks = SelectSeq(SubSeq(snippets, 1, FirstOverflow(snippets) - 1),
                                  NonEmpty)

\* C3 witness: a snippet after the first overflow would still have fitted
LaterFitOmitted ==
    /\ pc = "gemini"
    /\ \E m \in 1..Len(snippets) :
          /\ m > FirstOverflow(snippets)
          /\ snippets[m].snippet # <<>>
          /\ BlockBytes(prompt.blocks) + ByteLen(snippets[m].snippet)
                <= MAX_TOTAL_BYTES

\* the segment without a trailing ".git", nothing else removed
StripGitSuffix(seg) ==
    IF EndsWith(seg, DotGit) THEN SubSeq(seg, 1, Len(seg) - Len(DotGit)) ELSE seg

\* C4: for a path of at least 2 segments the parser returns the first segment
\* as owner, the second with only a trailing ".git" removed as repo, and branch
\* "main" unless the third segment is "tree" and a fourth exists.
ParseAsDocumented ==
    LET parts == UrlParts(url) IN
    (pc # "parse" /\ Len(parts) >= 2) =>
        /\ pc = "ref1"
        /\ owner = parts[1]
        /\ repo = StripGitSuffix(parts[2])
        /\ branch = IF Len(parts) >= 4 /\ parts[3] = TreeWord THEN parts[4] ELSE Main

\* C5: the selection is a subsequence of the tree in tree order, has at most
\* PICK_LIMIT entries, all blobs, and selecting from the selection changes nothing.
SelectionOrderedCappedIdempotent ==
    pc = "fetch" =>
        /\ Len(picked) <= PICK_LIMIT
        /\ \A k \in 1..Len(picked) :
              /\ picked[k].type = "blob"
              /\ picked[k].sha \in 1..Len(tree)
              /\ tree[picked[k].sha] = picked[k]
              /\ k > 1 => picked[k - 1].sha < picked[k].sha
        /\ select_relevant_files(picked) = picked

\* C5 witness: more than PICK_LIMIT entries qualified and the cap cut them
SelectionCapped ==
    /\ pc = "fetch"
    /\ Len(SelectSeq(tree, IsRelevant)) > PICK_LIMIT
    /\ Len(picked) = PICK_LIMIT
    /\ Len(tree) > Len(SelectSeq(tree, IsRelevant))

Fetched200 ==
    /\ fetch_log # <<>>
    /\ ~fetch_log[Len(fetch_log)].raised
    /\ fetch_log[Len(fetch_log)].status = 200

\* C7: a snippet has at most SNIPPET_LINE_LIMIT lines and at most
\* MAX_SNIPPET_BYTES bytes, and is a prefix of the first SNIPPET_LINE_LIMIT
\* lines of the content joined by line breaks.
SnippetWithinLimits ==
    Fetched200 =>
        LET s == snippets[Len(snippets)].snippet IN
        /\ LineCount(s) <= SNIPPET_LINE_LIMIT
        /\ ByteLen(s) <= MAX_SNIPPET_BYTES
        /\ IsPrefix(s, FirstLines(content))

\* C7 witness: more than the line limit, then more than the byte limit, and
\* the byte cut falls inside a multi-byte character
SnippetCutTwice ==
    /\ Fetched200
    /\ LineCount(content) > SNIPPET_LINE_LIMIT
    /\ ByteLen(FirstLines(content)) > MAX_SNIPPET_BYTES
    /\ ByteLen(snippets[Len(snippets)].snippet) < MAX_SNIPPET_BYTES

\* C8: when build_prompt is reached the mapping has exactly one item per
\* selected file, in order, with an empty snippet for each file whose fetch
\* failed (a non-200 status or an exception).
OneSnippetPerSelectedFile ==
    pc = "build" =>
        /\ Len(snippets) = Len(picked)
        /\ \A k \in 1..Len(picked) :
              /\ snippets[k].path = picked[k].path
              /\ (fetch_log[k].raised \/ fetch_log[k].status # 200)
                    => snippets[k].snippet = <<>>

\* C9: the default-branch query and the second ref lookup happen only after a
\* 404 on the first lookup and at most once each; the run goes on past the
\* lookups only with a successful last lookup that gave a commit; the tree
\* listing is requested at most once and only for that commit.
TwoStepFallback ==
    /\ ref_lookups <= 2 /\ info_queries <= 1 /\ tree_requests <= 1
    /\ (info_queries > 0 \/ ref_lookups > 1) => first_status = 404
    /\ ref_lookups > 1 => info_queries = 1
    /\ r.status >= 400 => pc \in {"info", "ref2", "resolve", "failed"}
    /\ (tree_requests > 0 \/ pc = "tree") =>
          /\ r.status = 200 /\ r.has_sha
          /\ sha # None /\ sha = tree_branch

\* C9 witness: the first lookup gave 404, the second succeeded, the tree was listed
FallbackResolved ==
    /\ pc = "select"
    /\ first_status = 404 /\ ref_lookups = 2 /\ info_queries = 1
    /\ tree_requests = 1

\* C10: once the branch is resolved, every content request is made for that
\* branch and the prompt names that branch.
ResolvedBranchUsed ==
    sha # None =>
        /\ \A k \in 1..Len(fetch_log) : fetch_log[k].ref = sha
        /\ prompt.branch # None => prompt.branch = sha

====
